---- MODULE Spec2Model ----
(***************************************************************************)
(* A model of the PPTX text-map pipeline:                                  *)
(*   build_text_map.py          the Extractor  (document -> text map)      *)
(*   export_text_array.py       the Flattener  (text map -> texts)         *)
(*   apply_translated_texts.py  the Detacher   (text map x values -> map)  *)
(*   apply_text_map_to_pptx.py  the Projector  (document x map -> document)*)
(*                                                                         *)
(* A document is the object model python-pptx exposes: slides, each an     *)
(* ordered sequence of shapes; a shape may expose a text frame, a table, a *)
(* chart (backed by a chart part named by its partname) and, when it is a  *)
(* group, a nested shape sequence.  A text frame is a sequence of          *)
(* paragraphs, a paragraph a sequence of runs, a run its text.  Chart      *)
(* parts live beside the slides and are referenced by partname, so that    *)
(* two shapes can reference the same part.                                 *)
(***************************************************************************)
EXTENDS Integers, Sequences, FiniteSets, TLC

VARIABLES
    doc,           \* the source document on storage (never modified)
    pc,            \* the stage the pipeline has reached
    text_map,      \* the text map the Detacher and the Flattener read
    texts,         \* the Flattener's output
    values,        \* the translated values handed to the Detacher
    merged,        \* the text map the Projector reads
    presentation,  \* the Projector's in-memory document
    chart_cache,   \* the Projector's cache: the partnames whose nodes are cached
    pos,           \* the Projector's position in the entries (1-based)
    error,         \* "" or the message the failing stage aborted with
    output,        \* the document artifact the Projector saved, if any
    remap          \* the text map extracted from the saved artifact

vars == <<doc, pc, text_map, texts, values, merged, presentation,
          chart_cache, pos, error, output, remap>>

----------------------------------------------------------------------------
(* Bounds of the model.                                                    *)

MaxRuns == 2      \* runs per paragraph
MaxParas == 2     \* paragraphs per text frame
MaxRows == 2      \* rows of a table
MaxCols == 2      \* columns of a table
MaxNodes == 2     \* text nodes of a chart part
MaxDepth == 2     \* nesting depth of groups
MaxSlides == 2    \* slides of a document
MaxValues == 2    \* length of a hand-written list of translated values

Texts == {"", "a", "b"}
PartNames == {"/ppt/charts/chart1.xml", "/ppt/charts/chart2.xml"}
Part1 == "/ppt/charts/chart1.xml"
Part2 == "/ppt/charts/chart2.xml"

----------------------------------------------------------------------------
(* The document object model.                                              *)

NoTable == [rows |-> <<>>, ncols |-> 0]

MkShape(type, name, htf, tf, htab, tab, hch, part, kids) ==
    [shape_type |-> type, name |-> name,
     has_text_frame |-> htf, text_frame |-> tf,
     has_table |-> htab, table |-> tab,
     has_chart |-> hch, chart_part |-> part,
     shapes |-> kids]

TextBox(tf)     == MkShape("TEXT_BOX", "TextBox", TRUE, tf, FALSE, NoTable, FALSE, "", <<>>)
TableShape(tab) == MkShape("TABLE", "Table", FALSE, <<>>, TRUE, tab, FALSE, "", <<>>)
ChartShape(p)   == MkShape("CHART", "Chart", FALSE, <<>>, FALSE, NoTable, TRUE, p, <<>>)
GroupShape(ks)  == MkShape("GROUP", "Group", FALSE, <<>>, FALSE, NoTable, FALSE, "", ks)
Picture         == MkShape("PICTURE", "Picture", FALSE, <<>>, FALSE, NoTable, FALSE, "", <<>>)

MkTable(rows) == [rows |-> rows, ncols |-> IF Len(rows) = 0 THEN 0 ELSE Len(rows[1])]

NoParts == [p \in PartNames |-> <<>>]
MkDoc(slides, parts) == [slides |-> slides, parts |-> parts]
Slide(shapes) == [shapes |-> shapes]

----------------------------------------------------------------------------
(* build_text_map.py                                                       *)

RECURSIVE ConcatAll(_)
ConcatAll(ss) ==
    IF Len(ss) = 0 THEN <<>> ELSE Head(ss) \o ConcatAll(Tail(ss))

NonEmptyText(e) == e.text # ""

\* base_entry of walk_shapes, with every key an entry can carry
base_entry(slide_index, shape, chain) ==
    [slide_index |-> slide_index,
     shape_name |-> shape.name,
     shape_type |-> shape.shape_type,
     shape_index_chain |-> chain,
     container |-> "",
     paragraph_index |-> 0, run_index |-> 0,
     table_row |-> 0, table_col |-> 0,
     chart_partname |-> "", chart_text_index |-> 0,
     text |-> ""]

\* faulty variant of record_runs, for fault injection: run_index counts the non-empty runs only
record_runs_compact(text_frame, base, container, row, col) ==
    ConcatAll([para_idx \in 1..Len(text_frame) |->
        LET kept == SelectSeq(text_frame[para_idx], LAMBDA t : t # "")
        IN  [k \in 1..Len(kept) |->
                [base EXCEPT !.container = container,
                             !.table_row = row, !.table_col = col,
                             !.paragraph_index = para_idx,
                             !.run_index = k,
                             !.text = kept[k]]]])

record_runs(text_frame, base, container, row, col) ==
    ConcatAll([para_idx \in 1..Len(text_frame) |->
        SelectSeq(
            [run_idx \in 1..Len(text_frame[para_idx]) |->
                [base EXCEPT !.container = container,
                             !.table_row = row, !.table_col = col,
                             !.paragraph_index = para_idx,
                             !.run_index = run_idx,
                             !.text = text_frame[para_idx][run_idx]]],
            NonEmptyText)])

\* faulty variant of record_chart_text, for fault injection: chart_text_index counts from 0
record_chart_text_zero_based(shape, base, parts) ==
    IF ~shape.has_chart THEN <<>>
    ELSE LET nodes == parts[shape.chart_part]
         IN SelectSeq(
                [chart_idx \in 1..Len(nodes) |->
                    [base EXCEPT !.container = "chart_part",
                                 !.chart_partname = shape.chart_part,
                                 !.chart_text_index = chart_idx - 1,
                                 !.text = nodes[chart_idx]]],
                NonEmptyText)

record_chart_text(shape, base, parts) ==
    IF ~shape.has_chart THEN <<>>
    ELSE LET nodes == parts[shape.chart_part]
         IN SelectSeq(
                [chart_idx \in 1..Len(nodes) |->
                    [base EXCEPT !.container = "chart_part",
                                 !.chart_partname = shape.chart_part,
                                 !.chart_text_index = chart_idx,
                                 !.text = nodes[chart_idx]]],
                NonEmptyText)

record_table(shape, base) ==
    IF ~shape.has_table THEN <<>>
    ELSE ConcatAll([row_idx \in 1..Len(shape.table.rows) |->
            ConcatAll([col_idx \in 1..Len(shape.table.rows[row_idx]) |->
                record_runs(shape.table.rows[row_idx][col_idx], base,
                            "table_cell", row_idx, col_idx)])])

RECURSIVE walk_shapes(_, _, _, _)
walk_shapes(shape_iter, index_chain, slide_index, parts) ==
    ConcatAll([shape_idx \in 1..Len(shape_iter) |->
        LET shape == shape_iter[shape_idx]
            chain == Append(index_chain, shape_idx)
            base  == base_entry(slide_index, shape, chain)
        IN  (IF shape.has_text_frame
                THEN record_runs(shape.text_frame, base, "text_frame", 0, 0)
                ELSE <<>>)
            \o record_table(shape, base)
            \o record_chart_text(shape, base, parts)
            \o (IF shape.shape_type = "GROUP"
                   THEN walk_shapes(shape.shapes, chain, slide_index, parts)
                   ELSE <<>>)])

extract_entries(d) ==
    ConcatAll([slide_idx \in 1..Len(d.slides) |->
        walk_shapes(d.slides[slide_idx].shapes, <<>>, slide_idx, d.parts)])

build_text_map(d) ==
    LET entries == extract_entries(d)
    IN  [slide_count |-> Len(d.slides),
         has_entry_count |-> TRUE,
         entry_count |-> Len(entries),
         entries |-> entries]

----------------------------------------------------------------------------
(* export_text_array.py                                                    *)

\* Every entry of the model carries a text, so the only assertion of
\* load_texts cannot fail: the result is the texts, in entry order.
load_texts(data) ==
    [idx \in 1..Len(data.entries) |-> data.entries[idx].text]

----------------------------------------------------------------------------
(* apply_translated_texts.py                                               *)

\* A JSON value of the translated array: a string, or something else
\* (a number, null, ...) of which only the literal is kept.
JsonStr(s) == [is_str |-> TRUE, str |-> s]
JsonOther(lit) == [is_str |-> FALSE, str |-> lit]

merge_entry(entry, value) == [entry EXCEPT !.text = value.str]

\* faulty variant of merge_translations, for fault injection: values matched to entries by content (the
\* value of the last entry with the same text), not by position
merge_translations_by_content(base_map, translated_values) ==
    LET entries == base_map.entries
        last(i) == CHOOSE j \in 1..Len(entries) :
                        /\ entries[j].text = entries[i].text
                        /\ \A k \in 1..Len(entries) :
                                entries[k].text = entries[i].text => k <= j
    IN  IF Len(entries) # Len(translated_values)
        THEN [err |-> "translated array must match entries length",
              map |-> base_map]
        ELSE IF \E i \in 1..Len(translated_values) : ~translated_values[i].is_str
        THEN [err |-> "translated value must be a string", map |-> base_map]
        ELSE LET merged_entries ==
                    [i \in 1..Len(entries) |->
                        merge_entry(entries[i], translated_values[last(i)])]
             IN  [err |-> "",
                  map |-> [base_map EXCEPT !.entries = merged_entries,
                                           !.has_entry_count = TRUE,
                                           !.entry_count = Len(merged_entries)]]

\* faulty variant of merge_translations, for fault injection: no length assertion, zip truncates to the
\* shorter of the two lists
merge_translations_truncating(base_map, translated_values) ==
    LET entries == base_map.entries
        n == IF Len(entries) < Len(translated_values)
                THEN Len(entries) ELSE Len(translated_values)
    IN  IF \E i \in 1..n : ~translated_values[i].is_str
        THEN [err |-> "translated value must be a string", map |-> base_map]
        ELSE LET merged_entries ==
                    [i \in 1..n |-> merge_entry(entries[i], translated_values[i])]
             IN  [err |-> "",
                  map |-> [base_map EXCEPT !.entries = merged_entries,
                                           !.has_entry_count = TRUE,
                                           !.entry_count = Len(merged_entries)]]

merge_translations(base_map, translated_values) ==
    LET entries == base_map.entries
    IN  IF Len(entries) # Len(translated_values)
        THEN [err |-> "translated array must match entries length",
              map |-> base_map]
        ELSE IF \E i \in 1..Len(translated_values) : ~translated_values[i].is_str
        THEN [err |-> "translated value must be a string", map |-> base_map]
        ELSE LET merged_entries ==
                    [i \in 1..Len(entries) |->
                        merge_entry(entries[i], translated_values[i])]
             IN  [err |-> "",
                  map |-> [base_map EXCEPT !.entries = merged_entries,
                                           !.has_entry_count = TRUE,
                                           !.entry_count = Len(merged_entries)]]

----------------------------------------------------------------------------
(* apply_text_map_to_pptx.py                                               *)

\* resolve_shape: the shape a chain denotes under a shape sequence, or the
\* assertion that failed.
RECURSIVE resolve_from(_, _)
resolve_from(shapes, chain) ==
    LET idx == Head(chain)
    IN  IF ~(1 <= idx /\ idx <= Len(shapes))
        THEN [err |-> "Shape index out of range", shape |-> Picture]
        ELSE IF Len(chain) > 1
        THEN IF shapes[idx].shape_type # "GROUP"
             THEN [err |-> "Intermediate shape must be a group", shape |-> Picture]
             ELSE resolve_from(shapes[idx].shapes, Tail(chain))
        ELSE [err |-> "", shape |-> shapes[idx]]

resolve_shape(slide, chain) ==
    IF Len(chain) = 0
    THEN [err |-> "shape_index_chain must not be empty", shape |-> Picture]
    ELSE resolve_from(slide.shapes, chain)

\* The shape sequence with the shape a (resolved) chain denotes replaced:
\* the Projector mutates the resolved object in place.
RECURSIVE put_shape(_, _, _)
put_shape(shapes, chain, new) ==
    IF Len(chain) = 1
    THEN [shapes EXCEPT ![Head(chain)] = new]
    ELSE [shapes EXCEPT ![Head(chain)].shapes =
                put_shape(shapes[Head(chain)].shapes, Tail(chain), new)]

\* faulty variant of set_run_text, for fault injection: the text is set on the first run of the paragraph
set_run_text_first(text_frame, paragraph_index, run_index, text) ==
    IF ~(1 <= paragraph_index /\ paragraph_index <= Len(text_frame))
    THEN [err |-> "paragraph_index out of range", tf |-> text_frame]
    ELSE IF ~(1 <= run_index /\ run_index <= Len(text_frame[paragraph_index]))
    THEN [err |-> "run_index out of range", tf |-> text_frame]
    ELSE [err |-> "",
          tf |-> [text_frame EXCEPT ![paragraph_index][1] = text]]

set_run_text(text_frame, paragraph_index, run_index, text) ==
    IF ~(1 <= paragraph_index /\ paragraph_index <= Len(text_frame))
    THEN [err |-> "paragraph_index out of range", tf |-> text_frame]
    ELSE IF ~(1 <= run_index /\ run_index <= Len(text_frame[paragraph_index]))
    THEN [err |-> "run_index out of range", tf |-> text_frame]
    ELSE [err |-> "",
          tf |-> [text_frame EXCEPT ![paragraph_index][run_index] = text]]

apply_text_frame_entry(shape, entry) ==
    IF ~shape.has_text_frame
    THEN [err |-> "Shape lacks text_frame", shape |-> shape]
    ELSE LET r == set_run_text(shape.text_frame, entry.paragraph_index,
                               entry.run_index, entry.text)
         IN  [err |-> r.err, shape |-> [shape EXCEPT !.text_frame = r.tf]]

\* faulty variant of apply_table_cell_entry, for fault injection: table_row and table_col swapped
apply_table_cell_entry_swapped(shape, entry) ==
    LET row_idx == entry.table_col
        col_idx == entry.table_row
        table   == shape.table
    IN  IF ~shape.has_table
        THEN [err |-> "Shape lacks table", shape |-> shape]
        ELSE IF ~(1 <= row_idx /\ row_idx <= Len(table.rows))
        THEN [err |-> "table_row out of range", shape |-> shape]
        ELSE IF ~(1 <= col_idx /\ col_idx <= table.ncols)
        THEN [err |-> "table_col out of range", shape |-> shape]
        ELSE LET r == set_run_text(table.rows[row_idx][col_idx],
                                   entry.paragraph_index, entry.run_index,
                                   entry.text)
             IN  [err |-> r.err,
                  shape |-> [shape EXCEPT !.table.rows[row_idx][col_idx] = r.tf]]

apply_table_cell_entry(shape, entry) ==
    LET row_idx == entry.table_row
        col_idx == entry.table_col
        table   == shape.table
    IN  IF ~shape.has_table
        THEN [err |-> "Shape lacks table", shape |-> shape]
        ELSE IF ~(1 <= row_idx /\ row_idx <= Len(table.rows))
        THEN [err |-> "table_row out of range", shape |-> shape]
        ELSE IF ~(1 <= col_idx /\ col_idx <= table.ncols)
        THEN [err |-> "table_col out of range", shape |-> shape]
        ELSE LET r == set_run_text(table.rows[row_idx][col_idx],
                                   entry.paragraph_index, entry.run_index,
                                   entry.text)
             IN  [err |-> r.err,
                  shape |-> [shape EXCEPT !.table.rows[row_idx][col_idx] = r.tf]]

\* The cache maps a partname to the node list of the part; the nodes are
\* the part's own (live) nodes, so the cache is the set of cached keys.
get_chart_nodes(partname, cache) == cache \cup {partname}

apply_chart_entry(shape, entry, parts, cache) ==
    LET chart_idx == entry.chart_text_index
    IN  IF ~shape.has_chart
        THEN [err |-> "Shape lacks chart", parts |-> parts, cache |-> cache]
        ELSE IF shape.chart_part # entry.chart_partname
        THEN [err |-> "Chart part mismatch", parts |-> parts, cache |-> cache]
        ELSE LET cache2 == get_chart_nodes(shape.chart_part, cache)
                 nodes  == parts[shape.chart_part]
             IN  IF chart_idx < 1
                 THEN [err |-> "Invalid chart_text_index",
                       parts |-> parts, cache |-> cache2]
                 ELSE IF chart_idx > Len(nodes)
                 THEN [err |-> "chart_text_index out of range",
                       parts |-> parts, cache |-> cache2]
                 ELSE [err |-> "",
                       parts |-> [parts EXCEPT ![shape.chart_part][chart_idx] =
                                        entry.text],
                       cache |-> cache2]

\* faulty variant of unsupported_container, for fault injection: the final else of apply_entry does nothing
unsupported_container_ignored(pres, cache) ==
    [err |-> "", pres |-> pres, cache |-> cache]

\* the final else of apply_entry: raise ValueError
unsupported_container(pres, cache) ==
    [err |-> "Unsupported container type", pres |-> pres, cache |-> cache]

\* apply_entry: the presentation and the cache after the entry is applied,
\* or the failure that aborted it (the presentation is then not saved).
apply_entry(pres, entry, cache) ==
    LET slide_index == entry.slide_index
        fail(msg)   == [err |-> msg, pres |-> pres, cache |-> cache]
    IN  IF ~(1 <= slide_index /\ slide_index <= Len(pres.slides))
        THEN fail("slide_index out of range")
        ELSE
        LET slide == pres.slides[slide_index]
            rs    == resolve_shape(slide, entry.shape_index_chain)
            put(new) ==
                [pres EXCEPT !.slides[slide_index].shapes =
                    put_shape(slide.shapes, entry.shape_index_chain, new)]
        IN  IF rs.err # "" THEN fail(rs.err)
            ELSE IF entry.container = "text_frame"
            THEN LET r == apply_text_frame_entry(rs.shape, entry)
                 IN  IF r.err # "" THEN fail(r.err)
                     ELSE [err |-> "", pres |-> put(r.shape), cache |-> cache]
            ELSE IF entry.container = "table_cell"
            THEN LET r == apply_table_cell_entry(rs.shape, entry)
                 IN  IF r.err # "" THEN fail(r.err)
                     ELSE [err |-> "", pres |-> put(r.shape), cache |-> cache]
            ELSE IF entry.container = "chart_part"
            THEN LET r == apply_chart_entry(rs.shape, entry, pres.parts, cache)
                 IN  [err |-> r.err,
                      pres |-> [pres EXCEPT !.parts = r.parts],
                      cache |-> r.cache]
            ELSE unsupported_container(pres, cache)


----------------------------------------------------------------------------
(* The documents the pipeline is run on: one family per dimension of the   *)
(* object model, each enumerated up to its bound.                          *)

EmptyDoc == MkDoc(<<>>, NoParts)
EmptyMap == [slide_count |-> 0, has_entry_count |-> FALSE, entry_count |-> 0,
             entries |-> <<>>]

Paras == UNION {[1..n -> Texts] : n \in 0..MaxRuns}

\* one text box: a single paragraph of every content, or up to MaxParas
\* paragraphs each with no run, one run, or an empty run before or between
\* non-empty ones
ParaChoices == {<<>>, <<"a">>, <<"", "b">>, <<"a", "", "b">>}
Frames == {<<p>> : p \in Paras}
            \cup UNION {[1..k -> ParaChoices] : k \in 1..MaxParas}
TextDocs == {MkDoc(<<Slide(<<TextBox(tf)>>)>>, NoParts) : tf \in Frames}

\* one table of every size, each cell one of two frames
CellFrames == {<< <<"a">> >>, << <<"", "b">>, <<>> >>}
Tables == UNION {[1..r -> [1..c -> CellFrames]] : r \in 1..MaxRows, c \in 1..MaxCols}
TableDocs == {MkDoc(<<Slide(<<Picture, TableShape(MkTable(rows))>>)>>, NoParts) :
                rows \in Tables}

\* charts: one part, two parts, one part referenced twice on a slide or
\* from two slides
NodeSeqs == UNION {[1..n -> Texts] : n \in 0..MaxNodes}
PartsOf(n1, n2) == [p \in PartNames |-> IF p = Part1 THEN n1 ELSE n2]
ChartLayouts ==
    { <<Slide(<<ChartShape(Part1)>>)>>,
      <<Slide(<<ChartShape(Part1), ChartShape(Part2)>>)>>,
      <<Slide(<<ChartShape(Part1), ChartShape(Part1)>>)>>,
      <<Slide(<<ChartShape(Part1)>>), Slide(<<ChartShape(Part1)>>)>> }
ChartDocs == {MkDoc(sl, PartsOf(n1, <<"b">>)) : sl \in ChartLayouts, n1 \in NodeSeqs}

\* groups nested to every depth, beside and around leaf shapes; a group
\* may carry a text frame, a table and a chart of its own
GroupLeaves == {TextBox(<< <<"", "a">> >>), Picture, ChartShape(Part1)}
FullGroup(ks) ==
    MkShape("GROUP", "Group", TRUE, << <<"b">> >>,
            TRUE, MkTable(<< << << <<"a">> >> >> >>), TRUE, Part2, ks)
RECURSIVE Nest(_)
Nest(d) ==
    IF d = 0 THEN {<<l>> : l \in GroupLeaves}
    ELSE LET inner == Nest(d - 1)
         IN  {<<GroupShape(k)>> : k \in inner}
             \cup {<<FullGroup(k)>> : k \in inner}
             \cup {<<l, GroupShape(k)>> : l \in GroupLeaves, k \in inner}
             \cup {<<GroupShape(k), l>> : l \in GroupLeaves, k \in inner}
GroupDocs == {MkDoc(<<Slide(ss)>>, PartsOf(<<"a", "">>, <<"", "b">>)) :
                ss \in UNION {Nest(d) : d \in 0..MaxDepth}}

\* several slides
SlideChoices == {Slide(<<>>), Slide(<<TextBox(<< <<"a">> >>)>>),
                 Slide(<<TableShape(MkTable(<< << << <<"b">> >> >> >>))>>)}
SlideDocs == {MkDoc(sl, NoParts) :
                sl \in UNION {[1..n -> SlideChoices] : n \in 0..MaxSlides}}

Docs == TextDocs \cup TableDocs \cup ChartDocs \cup GroupDocs \cup SlideDocs

----------------------------------------------------------------------------
(* The translated values the external translator hands back for the texts  *)
(* of a map: the texts themselves, a distinct label per position, one      *)
(* label for all, and the labels with one value translated to "".          *)

Labels == <<"t1", "t2", "t3", "t4", "t5", "t6", "t7", "t8", "t9", "t10",
            "t11", "t12", "t13", "t14", "t15", "t16">>
Label(i) == IF i <= Len(Labels) THEN Labels[i] ELSE "t"

OwnValues(ts) == [i \in 1..Len(ts) |-> JsonStr(ts[i])]
LabelValues(ts) == [i \in 1..Len(ts) |-> JsonStr(Label(i))]
Translations(ts) ==
    {OwnValues(ts), LabelValues(ts), [i \in 1..Len(ts) |-> JsonStr("x")]}
    \cup {[LabelValues(ts) EXCEPT ![k] = JsonStr("")] : k \in 1..Len(ts)}

----------------------------------------------------------------------------
(* The pipeline: CLI A (extract), CLI C (flatten), CLI B (merge), CLI D    *)
(* (project), and CLI A again on the projected document.                   *)

NoOutput == [written |-> FALSE, doc |-> EmptyDoc]

Init ==
    /\ doc \in Docs
    /\ pc = "start"
    /\ text_map = EmptyMap
    /\ texts = <<>>
    /\ values = <<>>
    /\ merged = EmptyMap
    /\ presentation = EmptyDoc
    /\ chart_cache = {}
    /\ pos = 0
    /\ error = ""
    /\ output = NoOutput
    /\ remap = EmptyMap

Extract ==
    /\ pc = "start"
    /\ text_map' = build_text_map(doc)
    /\ pc' = "extracted"
    /\ UNCHANGED <<doc, texts, values, merged, presentation, chart_cache,
                   pos, error, output, remap>>

Flatten ==
    /\ pc = "extracted"
    /\ texts' = load_texts(text_map)
    /\ pc' = "flattened"
    /\ UNCHANGED <<doc, text_map, values, merged, presentation, chart_cache,
                   pos, error, output, remap>>

\* main of apply_translated_texts.py: the merged map is written only when
\* merge_translations returns
MergeWith(V) ==
    LET r == merge_translations(text_map, V)
    IN  /\ values' = V
        /\ IF r.err = ""
           THEN /\ merged' = r.map
                /\ pc' = "merged"
                /\ error' = ""
           ELSE /\ merged' = merged
                /\ pc' = "merge_failed"
                /\ error' = r.err
        /\ UNCHANGED <<doc, text_map, texts, presentation, chart_cache,
                       pos, output, remap>>

Merge ==
    /\ pc = "flattened"
    /\ \E V \in Translations(texts) : MergeWith(V)

EntryCountMismatch(m) ==
    m.has_entry_count /\ m.entry_count # Len(m.entries)

\* faulty variant of ApplyStart, for fault injection: entry_count is not compared with the entries
ApplyStart_unchecked ==
    /\ pc \in {"merged", "handed"}
    /\ presentation' = doc
    /\ chart_cache' = {}
    /\ pc' = "applying"
    /\ error' = ""
    /\ pos' = 1
    /\ UNCHANGED <<doc, text_map, texts, values, merged, output, remap>>

\* apply_text_map, up to the loop over the entries
ApplyStart ==
    /\ pc \in {"merged", "handed"}
    /\ presentation' = doc
    /\ chart_cache' = {}
    /\ IF EntryCountMismatch(merged)
       THEN /\ pc' = "apply_failed"
            /\ error' = "entry_count does not match actual number of entries"
            /\ pos' = 0
       ELSE /\ pc' = "applying"
            /\ error' = ""
            /\ pos' = 1
    /\ UNCHANGED <<doc, text_map, texts, values, merged, output, remap>>

\* one iteration of the loop of apply_text_map
ApplyEntry ==
    /\ pc = "applying"
    /\ pos <= Len(merged.entries)
    /\ LET r == apply_entry(presentation, merged.entries[pos], chart_cache)
       IN  /\ presentation' = r.pres
           /\ chart_cache' = r.cache
           /\ IF r.err = ""
              THEN /\ pos' = pos + 1
                   /\ UNCHANGED <<pc, error>>
              ELSE /\ pc' = "apply_failed"
                   /\ error' = r.err
                   /\ pos' = pos
    /\ UNCHANGED <<doc, text_map, texts, values, merged, output, remap>>

\* presentation.save, after the loop
Save ==
    /\ pc = "applying"
    /\ pos > Len(merged.entries)
    /\ output' = [written |-> TRUE, doc |-> presentation]
    /\ pc' = "saved"
    /\ UNCHANGED <<doc, text_map, texts, values, merged, presentation,
                   chart_cache, pos, error, remap>>

\* CLI A on the saved document
ReExtract ==
    /\ pc = "saved"
    /\ remap' = build_text_map(output.doc)
    /\ pc' = "done"
    /\ UNCHANGED <<doc, text_map, texts, values, merged, presentation,
                   chart_cache, pos, error, output>>

Next == Extract \/ Flatten \/ Merge \/ ApplyStart \/ ApplyEntry \/ Save \/ ReExtract

Spec == Init /\ [][Next]_vars


----------------------------------------------------------------------------
(* Hand-written inputs: a text map edited by hand before it is handed to   *)
(* a consumer, and an arbitrary JSON array of translated values.           *)

ScenarioDoc ==
    MkDoc(<<Slide(<<TextBox(<< <<"a">> >>)>>),
            Slide(<<TableShape(MkTable(<< << << <<"b">> >> >> >>))>>)>>,
          NoParts)
GroupChartDoc ==
    MkDoc(<<Slide(<<GroupShape(<<TextBox(<< <<"", "a">> >>), ChartShape(Part1)>>),
                    Picture>>)>>,
          PartsOf(<<"a", "b">>, <<>>))
NestedTableDoc ==
    MkDoc(<<Slide(<<GroupShape(<<Picture,
                                 GroupShape(<<TableShape(MkTable(
                                    << << << <<"a">> >>, << <<"", "b">> >> >> >>))>>)>>)>>)>>,
          NoParts)
HandDocs == {EmptyDoc, ScenarioDoc, GroupChartDoc, NestedTableDoc}

Containers == {"text_frame", "table_cell", "chart_part"}

EntryEdits(e) ==
    {[e EXCEPT !.slide_index = v] : v \in {0, e.slide_index - 1, e.slide_index + 1}}
    \cup {[e EXCEPT !.shape_index_chain = c] :
            c \in {<<>>, <<0>>, <<e.shape_index_chain[1]>>,
                   Append(e.shape_index_chain, 1),
                   [e.shape_index_chain EXCEPT ![1] = @ + 1],
                   [e.shape_index_chain EXCEPT ![Len(e.shape_index_chain)] = @ + 1],
                   <<e.shape_index_chain[1]>> \o e.shape_index_chain}}
    \cup {[e EXCEPT !.container = c] : c \in Containers \cup {"", "notes"}}
    \cup {[e EXCEPT !.paragraph_index = v] : v \in {0, e.paragraph_index + 1}}
    \cup {[e EXCEPT !.run_index = v] :
            v \in {0, e.run_index - 1, e.run_index + 1}}
    \cup {[e EXCEPT !.table_row = v] : v \in {0, e.table_row + 1}}
    \cup {[e EXCEPT !.table_col = v] : v \in {0, e.table_col + 1}}
    \cup {[e EXCEPT !.chart_partname = v] : v \in PartNames}
    \cup {[e EXCEPT !.chart_text_index = v] :
            v \in {0, e.chart_text_index - 1, e.chart_text_index + 1}}

CountEdits(m) ==
    {m, [m EXCEPT !.has_entry_count = FALSE],
        [m EXCEPT !.entry_count = @ + 1],
        [m EXCEPT !.entry_count = 0]}

\* the map with every text replaced by the label of its position
Relabelled(m) ==
    [m EXCEPT !.entries = [i \in 1..Len(m.entries) |->
                                [m.entries[i] EXCEPT !.text = Label(i)]]]

EntryEditsOf(m) ==
    UNION {{[m EXCEPT !.entries[i] = e] : e \in EntryEdits(m.entries[i])} :
                i \in 1..Len(m.entries)}

HandMaps(m) ==
    CountEdits(m) \cup EntryEditsOf(m) \cup EntryEditsOf(Relabelled(m))

JsonValues == {JsonStr("x"), JsonStr(""), JsonOther("7")}
JsonLists == UNION {[1..n -> JsonValues] : n \in 0..MaxValues}

\* A map file exists: either CLI C and CLI B are run on it (edited in its
\* entry_count or not), or it is handed to CLI D as the translated map.
InitMaps ==
    /\ doc \in HandDocs
    /\ \/ /\ pc = "extracted"
          /\ text_map \in CountEdits(build_text_map(doc))
          /\ merged = EmptyMap
       \/ /\ pc = "handed"
          /\ text_map = build_text_map(doc)
          /\ merged \in HandMaps(build_text_map(doc))
    /\ texts = <<>>
    /\ values = <<>>
    /\ presentation = EmptyDoc
    /\ chart_cache = {}
    /\ pos = 0
    /\ error = ""
    /\ output = NoOutput
    /\ remap = EmptyMap

MergeHand ==
    /\ pc = "flattened"
    /\ \E V \in JsonLists \cup Translations(texts) : MergeWith(V)

NextMaps == Flatten \/ MergeHand \/ ApplyStart \/ ApplyEntry \/ Save \/ ReExtract

SpecMaps == InitMaps /\ [][NextMaps]_vars

----------------------------------------------------------------------------
(* What an address denotes (spec section 3), independently of the code:    *)
(* the shapes of a document with their chains, the text leaves with their  *)
(* locations, and the location an entry's address names.                   *)

RECURSIVE ShapesIn(_, _, _)
ShapesIn(shapes, prefix, slide) ==
    UNION {
        {[slide |-> slide, chain |-> Append(prefix, i), shape |-> shapes[i]]}
        \cup (IF shapes[i].shape_type = "GROUP"
                THEN ShapesIn(shapes[i].shapes, Append(prefix, i), slide)
                ELSE {})
        : i \in 1..Len(shapes)}

AllShapes(d) == UNION {ShapesIn(d.slides[s].shapes, <<>>, s) : s \in 1..Len(d.slides)}

RunLoc(slide, chain, container, row, col, p, r) ==
    [kind |-> container, slide |-> slide, chain |-> chain, row |-> row,
     col |-> col, para |-> p, run |-> r, part |-> "", node |-> 0]
NodeLoc(part, n) ==
    [kind |-> "chart_part", slide |-> 0, chain |-> <<>>, row |-> 0, col |-> 0,
     para |-> 0, run |-> 0, part |-> part, node |-> n]

FrameLeaves(tf, slide, chain, container, row, col) ==
    UNION {{[loc |-> RunLoc(slide, chain, container, row, col, p, r),
             text |-> tf[p][r]] : r \in 1..Len(tf[p])} : p \in 1..Len(tf)}

ShapeLeaves(s, parts) ==
    (IF s.shape.has_text_frame
        THEN FrameLeaves(s.shape.text_frame, s.slide, s.chain, "text_frame", 0, 0)
        ELSE {})
    \cup (IF s.shape.has_table
            THEN UNION {FrameLeaves(s.shape.table.rows[rc[1]][rc[2]], s.slide,
                                    s.chain, "table_cell", rc[1], rc[2]) :
                        rc \in (1..Len(s.shape.table.rows)) \X (1..s.shape.table.ncols)}
            ELSE {})
    \cup (IF s.shape.has_chart
            THEN {[loc |-> NodeLoc(s.shape.chart_part, n),
                   text |-> parts[s.shape.chart_part][n]] :
                    n \in 1..Len(parts[s.shape.chart_part])}
            ELSE {})

\* every text leaf of the document, with its text
Leaves(d) == UNION {ShapeLeaves(s, d.parts) : s \in AllShapes(d)}
LeafLocs(d) == {l.loc : l \in Leaves(d)}

\* the location the address of an entry names
Loc(e) ==
    IF e.container = "chart_part"
    THEN NodeLoc(e.chart_partname, e.chart_text_index)
    ELSE IF e.container = "table_cell"
    THEN RunLoc(e.slide_index, e.shape_index_chain, "table_cell",
                e.table_row, e.table_col, e.paragraph_index, e.run_index)
    ELSE RunLoc(e.slide_index, e.shape_index_chain, e.container, 0, 0,
                e.paragraph_index, e.run_index)

\* the address of an entry denotes a leaf of the document: its slide and
\* chain name a shape, the shape exposes the container, and the
\* sub-address names a leaf of that container
Denotes(d, e) ==
    /\ e.container \in Containers
    /\ Loc(e) \in LeafLocs(d)
    /\ \E s \in AllShapes(d) :
        /\ s.slide = e.slide_index
        /\ s.chain = e.shape_index_chain
        /\ e.container = "text_frame" => s.shape.has_text_frame
        /\ e.container = "table_cell" => s.shape.has_table
        /\ e.container = "chart_part" =>
                s.shape.has_chart /\ s.shape.chart_part = e.chart_partname

\* the leaves after the leaf at a location is set to a text
LeavesWith(d, loc, text) ==
    {IF l.loc = loc THEN [l EXCEPT !.text = text] ELSE l : l \in Leaves(d)}


\* the document with every text erased: what is left is its structure
RECURSIVE ShapesWithoutText(_)
ShapesWithoutText(shapes) ==
    [i \in 1..Len(shapes) |->
        [shapes[i] EXCEPT
            !.text_frame = [p \in 1..Len(@) |-> [r \in 1..Len(@[p]) |-> ""]],
            !.table.rows = [x \in 1..Len(@) |-> [y \in 1..Len(@[x]) |->
                                [p \in 1..Len(@[x][y]) |->
                                    [r \in 1..Len(@[x][y][p]) |-> ""]]]],
            !.shapes = ShapesWithoutText(@)]]

WithoutText(d) ==
    [slides |-> [s \in 1..Len(d.slides) |->
                    [shapes |-> ShapesWithoutText(d.slides[s].shapes)]],
     parts |-> [p \in PartNames |-> [n \in 1..Len(d.parts[p]) |-> ""]]]

----------------------------------------------------------------------------
(* The claims.                                                             *)

Entries == text_map.entries
EntryIndexes == 1..Len(text_map.entries)

\* the entries of the extracted map whose address names a location
EntriesAt(loc) == {i \in EntryIndexes : Loc(Entries[i]) = loc}

\* the entry with the text it had in the extracted map
WithText(e, text) == [e EXCEPT !.text = text]

AllStrings(V) == \A i \in 1..Len(V) : V[i].is_str

\* C1 (Spec): round-trip identity.  Projecting onto a document the map
\* merged from its own extracted texts gives a document whose extracted
\* map has the same entries (addresses, order, texts) and entry_count.
C1_RoundTripIdentity ==
    (pc = "done" /\ values = OwnValues(texts)) =>
        /\ remap.entries = text_map.entries
        /\ remap.entry_count = text_map.entry_count

C1_Witness ==
    /\ pc = "done"
    /\ values = OwnValues(texts)
    /\ Len(Entries) >= 3
    /\ \E i \in EntryIndexes : Entries[i].container = "chart_part"
    /\ \E i \in EntryIndexes : Len(Entries[i].shape_index_chain) >= 2
    /\ \E l \in Leaves(doc) : l.text = ""

\* C2 (SpecMaps): positional fidelity of merge_translations.  When the
\* merge succeeds the merged list has the length and order of the base
\* entries, merged entry i has text values[i], and every other field of it
\* is that of base entry i.
C2_PositionalFidelity ==
    pc = "merged" =>
        /\ Len(merged.entries) = Len(text_map.entries)
        /\ Len(values) = Len(text_map.entries)
        /\ \A i \in 1..Len(merged.entries) :
            /\ i <= Len(values) => merged.entries[i].text = values[i].str
            /\ i <= Len(Entries) =>
                    WithText(merged.entries[i], Entries[i].text) = Entries[i]

C2_Witness ==
    /\ pc = "merged"
    /\ Len(values) >= 2
    /\ values[1] # values[2]
    /\ Entries[1].text = Entries[2].text
    /\ merged.entries[1].text # Entries[1].text

\* C3 as stated (SpecMaps): merge_translations fails if and only if the
\* lengths of the values and of the entries differ.
C3_FailsIffLengthMismatch ==
    pc \in {"merged", "merge_failed"} =>
        ((pc = "merge_failed") <=> (Len(values) # Len(text_map.entries)))

\* C3 amended (SpecMaps): merge_translations fails if and only if the
\* lengths differ or some value is not a string; a failure produces no
\* merged map, a success one with exactly as many entries as values.
C3_FailsIffMismatchOrNonString ==
    pc \in {"merged", "merge_failed"} =>
        /\ (pc = "merge_failed") <=>
                (Len(values) # Len(text_map.entries) \/ ~AllStrings(values))
        /\ pc = "merge_failed" => (merged = EmptyMap /\ error # "")
        /\ pc = "merged" =>
                (Len(merged.entries) = Len(values)
                 /\ merged.entry_count = Len(values))

C3_Witness ==
    /\ pc = "merge_failed"
    /\ Len(values) = Len(text_map.entries)
    /\ Len(values) >= 2
    /\ ~AllStrings(values)

\* C4 (Spec): address validity.  Every entry of the extracted map, applied
\* by the Projector to the unmodified document, passes every check, and the
\* leaf it sets is the leaf the Extractor read the entry's text from; so no
\* projection of a map merged from the extracted one ever aborts.
C4_AddressValidity ==
    /\ pc # "apply_failed"
    /\ pc = "extracted" =>
        \A i \in EntryIndexes :
            LET e == Entries[i]
                r == apply_entry(doc, WithText(e, "#"), {})
            IN  /\ [loc |-> Loc(e), text |-> e.text] \in Leaves(doc)
                /\ r.err = ""
                /\ Leaves(r.pres) = LeavesWith(doc, Loc(e), "#")

C4_Witness ==
    /\ pc = "saved"
    /\ \E i \in EntryIndexes : Entries[i].container = "chart_part"
    /\ \E i \in EntryIndexes : Entries[i].container = "text_frame"
    /\ \E i \in EntryIndexes :
            /\ Entries[i].container = "table_cell"
            /\ Len(Entries[i].shape_index_chain) >= 2

\* the Projector's loop, run to its end or to the first failure
RECURSIVE ApplyAll(_, _, _)
ApplyAll(pres, entries, cache) ==
    IF Len(entries) = 0 THEN [err |-> "", pres |-> pres]
    ELSE LET r == apply_entry(pres, Head(entries), cache)
         IN  IF r.err # "" THEN [err |-> r.err, pres |-> r.pres]
             ELSE ApplyAll(r.pres, Tail(entries), r.cache)

\* C5 (SpecMaps): the output document is written only after every entry
\* was applied successfully.  A written output is the document with all
\* entries applied, none failing, under a map that passed the entry_count
\* check; a failed run has written nothing; an entry_count mismatch fails
\* the run before any leaf of the in-memory document is modified.
C5_SaveOnlyAfterAllSucceed ==
    /\ output.written =>
        /\ ~EntryCountMismatch(merged)
        /\ error = ""
        /\ LET r == ApplyAll(doc, merged.entries, {})
           IN  r.err = "" /\ output.doc = r.pres
    /\ pc = "apply_failed" => (~output.written /\ error # "")
    /\ EntryCountMismatch(merged) =>
        /\ pc \in {"handed", "merged", "apply_failed"}
        /\ pc = "apply_failed" => (presentation = doc /\ pos = 0)

C5_Witness ==
    /\ pc = "apply_failed"
    /\ pos >= 2
    /\ presentation # doc
    /\ ~output.written
    /\ error \in {"slide_index out of range", "table_row out of range",
                  "chart_text_index out of range"}

\* C6 as stated (SpecMaps): every consumer of a text map rejects a map
\* whose entry_count differs from the number of its entries: the Flattener
\* and the Detacher do not get past such a base map, the Projector not past
\* such a translated map.
C6_ConsumersRejectCountMismatch ==
    /\ EntryCountMismatch(text_map) => pc \notin {"flattened", "merged"}
    /\ EntryCountMismatch(merged) => pc \notin {"applying", "saved", "done"}

\* C7 (Spec): empty-run skipping.  For every run of every paragraph of a
\* text frame or table cell the extracted map has exactly one entry when
\* the run's text is non-empty and none when it is empty, and the entry
\* carries the run's text and its true 1-based paragraph and run position.
C7_EmptyRunSkipping ==
    pc = "extracted" =>
        /\ \A l \in Leaves(doc) :
            l.loc.kind # "chart_part" =>
                Cardinality(EntriesAt(l.loc)) = (IF l.text = "" THEN 0 ELSE 1)
        /\ \A i \in EntryIndexes :
            Entries[i].container # "chart_part" =>
                [loc |-> Loc(Entries[i]), text |-> Entries[i].text] \in Leaves(doc)

C7_Witness ==
    /\ pc = "extracted"
    /\ Len(Entries) = 1
    /\ Entries[1].run_index = 2
    /\ Entries[1].paragraph_index = 2
    /\ Cardinality(Leaves(doc)) = 2

\* C8 as stated (Spec): the addressing is a bijection between the entries
\* and the non-empty text leaves: every non-empty leaf is named by exactly
\* one entry, and no two entries name the same leaf.
C8_EntriesBijectiveWithLeaves ==
    pc = "extracted" =>
        /\ \A l \in Leaves(doc) :
            l.text # "" => Cardinality(EntriesAt(l.loc)) = 1
        /\ \A i, j \in EntryIndexes :
            i # j => Loc(Entries[i]) # Loc(Entries[j])

\* C9 (SpecMaps): the Projector never silently skips an entry.  Each
\* iteration of its loop either sets the text of exactly the leaf the
\* entry's address denotes and moves on, or, when the address denotes no
\* leaf (a chain that is empty, out of range at some depth or through a
\* non-group, an unsupported container, ...), aborts the run with the
\* document untouched by that entry.
C9_NeverSilentlySkips ==
    [][(pc = "applying" /\ pos <= Len(merged.entries)) =>
        LET e == merged.entries[pos]
        IN  IF Denotes(presentation, e)
            THEN /\ pc' = "applying"
                 /\ pos' = pos + 1
                 /\ Leaves(presentation') = LeavesWith(presentation, Loc(e), e.text)
                 /\ WithoutText(presentation') = WithoutText(presentation)
            ELSE /\ pc' = "apply_failed"
                 /\ error' # ""
                 /\ presentation' = presentation]_vars

C9_Witness ==
    /\ pc = "apply_failed"
    /\ error = "Intermediate shape must be a group"
    /\ pos >= 2

\* no chart part is referenced by more than one shape
NoSharedChartPart(d) ==
    \A s, t \in AllShapes(d) :
        (s.shape.has_chart /\ t.shape.has_chart
         /\ s.shape.chart_part = t.shape.chart_part)
            => (s.slide = t.slide /\ s.chain = t.chain)

\* C10 (Spec): translation round trip.  For a document without a shared
\* chart part and translated values that are all non-empty, the projected
\* document extracts to the same addresses in the same order, entry i with
\* text values[i], and every leaf no entry addresses is unchanged.
C10_TranslationRoundTrip ==
    (pc = "done" /\ NoSharedChartPart(doc)
     /\ \A i \in 1..Len(values) : values[i].str # "") =>
        /\ Len(remap.entries) = Len(Entries)
        /\ remap.entry_count = text_map.entry_count
        /\ \A i \in 1..Len(remap.entries) :
            /\ i <= Len(values) => remap.entries[i].text = values[i].str
            /\ i <= Len(Entries) =>
                    WithText(remap.entries[i], Entries[i].text) = Entries[i]
        /\ LeafLocs(output.doc) = LeafLocs(doc)
        /\ \A l \in Leaves(doc) :
            EntriesAt(l.loc) = {} => l \in Leaves(output.doc)

C10_Witness ==
    /\ pc = "done"
    /\ NoSharedChartPart(doc)
    /\ values = LabelValues(texts)
    /\ Len(Entries) >= 4
    /\ \E i \in EntryIndexes : Entries[i].container = "chart_part"
    /\ \E i \in EntryIndexes : Len(Entries[i].shape_index_chain) >= 2
    /\ \E l \in Leaves(doc) : l.text = ""


====
